---- MODULE Spec2Model ----
(***************************************************************************)
(* Model of the one-dimensional minimizer of src/src/utils.js:             *)
(* bracketMinimum, goldenSectionMinimize and _minimizeSearch.              *)
(*                                                                         *)
(* Numbers.  The program computes in IEEE-754 doubles.  The model keeps    *)
(* the structure of that arithmetic in a reduced format: significands of   *)
(* SigBits bits, smallest positive value 1 (so the values below            *)
(* 2^SigBits are the integers), ExpRange binades above that, every         *)
(* operation rounded to nearest with ties to even, overflow to +-Infinity, *)
(* and NaN.  A value is an integer: a finite value is itself, PosInf and   *)
(* NegInf lie just outside the finite range (so the integer order is the   *)
(* order of the non-NaN values), NaN lies above PosInf and is handled by   *)
(* every operation explicitly.  The two products with a constant that is   *)
(* not itself a value of the reduced format, PHI_RATIO * w and 0.5 * s,    *)
(* are computed exactly and rounded once.                                  *)
(***************************************************************************)
EXTENDS Integers, Sequences, FiniteSets, TLC

\* Width of the significand of the reduced number format.
SigBits == 6
\* Number of binades above the integers.
ExpRange == 2

RECURSIVE Pow2(_)
Pow2(n) == IF n = 0 THEN 1 ELSE 2 * Pow2(n - 1)

\* Values below MaxExact are exact integers.
MaxExact == Pow2(SigBits)
MaxFinite == (MaxExact - 1) * Pow2(ExpRange)
PosInf == MaxFinite + 1
NegInf == -PosInf
NaN == PosInf + 1
\* An option the caller left out (JavaScript's undefined).
Undef == NaN + 1

IsNaN(a) == a = NaN
IsFinite(a) == a # NaN /\ a # PosInf /\ a # NegInf

Abs(n) == IF n < 0 THEN -n ELSE n
Sign(n) == IF n < 0 THEN -1 ELSE 1

\* The spacing of the values of the format around magnitude m/d.
RECURSIVE Quantum(_, _, _)
Quantum(m, d, q) == IF m < MaxExact * q * d THEN q ELSE Quantum(m, d, 2 * q)

\* The rational n/d (d > 0) rounded to the nearest value of the format,
\* ties to the even significand, magnitudes above MaxFinite to infinity.
RoundRat(n, d) ==
    LET m == Abs(n)
        q == Quantum(m, d, 1)
        lo == (m \div (q * d)) * q
        rem == m - lo * d
        r == IF 2 * rem < q * d THEN lo
             ELSE IF 2 * rem > q * d THEN lo + q
             ELSE IF (lo \div q) % 2 = 0 THEN lo ELSE lo + q
    IN  IF r > MaxFinite THEN Sign(n) * PosInf ELSE Sign(n) * r

Round(n) == RoundRat(n, 1)

\* a + b
FAdd(a, b) ==
    IF IsNaN(a) \/ IsNaN(b) THEN NaN
    ELSE IF ~IsFinite(a) /\ ~IsFinite(b) THEN (IF a = b THEN a ELSE NaN)
    ELSE IF ~IsFinite(a) THEN a
    ELSE IF ~IsFinite(b) THEN b
    ELSE Round(a + b)

FNeg(a) == IF IsNaN(a) THEN NaN ELSE -a

\* a - b
FSub(a, b) == FAdd(a, FNeg(b))

\* c * a for the rational constant c = num/den > 0
FScale(num, den, a) ==
    IF IsNaN(a) THEN NaN
    ELSE IF ~IsFinite(a) THEN a
    ELSE RoundRat(num * a, den)

\* Math.abs
FAbs(a) == IF IsNaN(a) THEN NaN ELSE Abs(a)

\* Math.min of two values
FMin(a, b) == IF IsNaN(a) \/ IsNaN(b) THEN NaN ELSE IF a < b THEN a ELSE b

\* The comparisons <, <=, >, === : false as soon as one side is NaN.
FLt(a, b) == ~IsNaN(a) /\ ~IsNaN(b) /\ a < b
FLe(a, b) == ~IsNaN(a) /\ ~IsNaN(b) /\ a <= b
FGt(a, b) == FLt(b, a)
FEq(a, b) == ~IsNaN(a) /\ ~IsNaN(b) /\ a = b

(***************************************************************************)
(* The objective function f is the caller's.  The model draws it from a    *)
(* family of sample objectives, each written as JavaScript would compute   *)
(* it on doubles (a NaN argument gives NaN through arithmetic, and makes   *)
(* a comparison false):                                                    *)
(*   convex  x => (x-c)*(x-c) + (x < c ? a*(c-x) : b*(x-c))                *)
(*           strictly convex, minimizer c, asymmetric when a # b           *)
(*   linear  x => a*x               strictly monotone (a # 0)              *)
(*   hinge   x => x < c ? a*(c-x) : 0     decreasing, then flat            *)
(*   root    x => x < c ? NaN : a*(x-c)   undefined left of c              *)
(***************************************************************************)
Objective(kind, c, a, b) == [kind |-> kind, c |-> c, a |-> a, b |-> b]

\* The slope of the steep side of an asymmetric objective.
Steep == 20
\* The minimizer of the convex objectives with an interior minimum.
Centre == 3

Objectives ==
    {Objective("convex", c, s[1], s[2]) :
        c \in {0, Centre}, s \in {<<0, 0>>, <<0, Steep>>, <<Steep, 0>>}}
    \cup {Objective("linear", 0, a, 0) : a \in {-2, 2}}
    \cup {Objective("hinge", 2, 2, 0), Objective("root", 1, 2, 0)}

\* f(x)
Eval(g, x) ==
    CASE g.kind = "convex" ->
            IF IsNaN(x) THEN NaN
            ELSE IF ~IsFinite(x) THEN PosInf
            ELSE Round((x - g.c) * (x - g.c)
                       + (IF x < g.c THEN g.a * (g.c - x) ELSE g.b * (x - g.c)))
      [] g.kind = "linear" ->
            IF IsNaN(x) THEN NaN
            ELSE IF ~IsFinite(x) THEN Sign(g.a) * x
            ELSE Round(g.a * x)
      [] g.kind = "hinge" ->
            IF IsNaN(x) THEN 0
            ELSE IF x = NegInf THEN PosInf
            ELSE IF x < g.c THEN Round(g.a * (g.c - x)) ELSE 0
      [] g.kind = "root" ->
            IF IsNaN(x) THEN NaN
            ELSE IF x < g.c THEN NaN
            ELSE IF x = PosInf THEN PosInf
            ELSE Round(g.a * (x - g.c))

\* PHI_RATIO = 2 / (1 + sqrt(5)) = 0.618..., as the rational PhiNum / PhiDen
PhiNum == 618
PhiDen == 1000
MulPhi(w) == FScale(PhiNum, PhiDen, w)
\* 0.5 * s
Half(s) == FScale(1, 2, s)
\* 2 * dx
Twice(a) == FScale(2, 1, a)

\* option === undefined ? default : option
OrDefault(v, d) == IF v = Undef THEN d ELSE v
DefaultIncrement == 1
DefaultMaxIterations == 100

\* The reset with the assignment to converged left out.
ResetStatusKeepsConverged(st) ==
    IF st.given
    THEN [st EXCEPT !.iterations = 0, !.argmin = NaN, !.minimum = PosInf]
    ELSE st

\* The status record as _minimizeSearch resets it.
ResetStatus(st) ==
    IF st.given
    THEN [st EXCEPT !.iterations = 0, !.argmin = NaN,
                    !.minimum = PosInf, !.converged = FALSE]
    ELSE st

VARIABLES
    f, options, status,            \* the arguments of _minimizeSearch
    pc, result, thrownIn,          \* position, return value, where f raised
    beat,                          \* flips at every evaluation of f inside a loop
    tolerance, dx, xMin, xMax, maxIterations, x0, bounds,   \* _minimizeSearch
    bxU, fU, fL, fMin, bounded,    \* bracketMinimum (bxU is its xU)
    xL, xU, x1, x2, f1, f2, f10, f20, xL0, xU0, iteration   \* goldenSectionMinimize

args == <<f, options>>
resolved == <<tolerance, dx, xMin, xMax, maxIterations>>
bracketFrame == <<bxU, fU, fL, fMin, bounded>>
goldenFrame == <<xL, xU, x1, x2, f1, f2, f10, f20, xL0, xU0, iteration>>
vars == <<f, options, status, pc, result, thrownIn, beat, resolved, x0, bounds,
          bracketFrame, goldenFrame>>

(***************************************************************************)
(* The calls the model makes: every objective of the family with every     *)
(* combination of the options below.  tolerance is always passed: its      *)
(* default, 1e-8, lies below the resolution of the reduced number format.  *)
(***************************************************************************)
Tolerances == {1, 2, 8}
Increments == {Undef, 2, -1, 0, NaN, PosInf, NegInf, MaxExact}
LowerBounds == {Undef, 0, 1}
UpperBounds == {Undef, 6, 8}
IterationCaps == {Undef, 0, 1, 2}

OptionSets ==
    [tolerance : Tolerances, initialIncrement : Increments,
     lowerBound : LowerBounds, upperBound : UpperBounds,
     maxIterations : IterationCaps]

\* What the caller's status record holds before the call (or no record).
StatusRecord(given, it, am, mn, cv) ==
    [given |-> given, iterations |-> it, argmin |-> am, minimum |-> mn,
     converged |-> cv]
NoStatus == StatusRecord(FALSE, 0, 0, 0, FALSE)
StatusesBefore ==
    {NoStatus, StatusRecord(TRUE, 7, 3, 0, TRUE), StatusRecord(TRUE, 1, 5, 4, FALSE)}

\* The state before a call with arguments drawn from the given sets.
Before(objectives, optionSets, statuses) ==
    /\ f \in objectives
    /\ options \in optionSets
    /\ status \in statuses
    /\ pc = "start"
    /\ result = 0
    /\ thrownIn = "none"
    /\ beat = FALSE
    /\ tolerance = 0 /\ dx = 0 /\ xMin = 0 /\ xMax = 0 /\ maxIterations = 0
    /\ x0 = 0
    /\ bounds = <<0, 0>>
    /\ bxU = 0 /\ fU = 0 /\ fL = 0 /\ fMin = 0 /\ bounded = FALSE
    /\ xL = 0 /\ xU = 0 /\ x1 = 0 /\ x2 = 0 /\ f1 = 0 /\ f2 = 0
    /\ f10 = 0 /\ f20 = 0 /\ xL0 = 0 /\ xU0 = 0 /\ iteration = 0

Init == Before(Objectives, OptionSets, StatusesBefore)

\* _minimizeSearch up to its call of bracketMinimum or goldenSectionMinimize
Call ==
    /\ pc = "start"
    /\ tolerance' = options.tolerance
    /\ dx' = OrDefault(options.initialIncrement, DefaultIncrement)
    /\ xMin' = OrDefault(options.lowerBound, NegInf)
    /\ xMax' = OrDefault(options.upperBound, PosInf)
    /\ maxIterations' = OrDefault(options.maxIterations, DefaultMaxIterations)
    /\ status' = ResetStatus(status)
    /\ IF IsFinite(xMax') /\ IsFinite(xMin')
       THEN /\ bounds' = <<xMin', xMax'>>
            /\ x0' = x0
            /\ pc' = "golden"
       ELSE /\ x0' = IF FGt(xMin', NegInf) THEN xMin' ELSE 0
            /\ bounds' = bounds
            /\ pc' = "bracket"
    /\ UNCHANGED <<args, result, thrownIn, beat, bracketFrame, goldenFrame>>

\* bracketMinimum: xU = x0; fMin = fL = fU = f(x0)
BracketEnter ==
    /\ pc = "bracket"
    /\ bxU' = x0
    /\ fU' = Eval(f, x0)
    /\ fL' = fU'
    /\ fMin' = fU'
    /\ bounded' = FALSE
    /\ pc' = "bracketLoop"
    /\ UNCHANGED <<args, status, result, thrownIn, beat, resolved, x0, bounds, goldenFrame>>

\* while (!bounded && isFinite(dx) && !isNaN(dx))
BracketContinues == ~bounded /\ IsFinite(dx) /\ ~IsNaN(dx)

\* if (fU <= fMin): the iteration evaluates f
BracketExpands == FLe(fU, fMin)

\* one iteration of bracketMinimum's loop
BracketStep ==
    /\ pc = "bracketLoop"
    /\ BracketContinues
    /\ LET expand == BracketExpands
           fMinA == IF expand THEN fU ELSE fMin
           xUA == IF expand THEN FAdd(bxU, dx) ELSE bxU
           fUA == IF expand THEN Eval(f, xUA) ELSE fU
           fMinB == FMin(fMinA, fUA)
       IN  /\ bxU' = xUA
           /\ fU' = fUA
           /\ fMin' = fMinB
           /\ bounded' = (~expand \/ FEq(fL, fMinB))
    /\ beat' = (beat # BracketExpands)
    /\ UNCHANGED <<args, status, pc, result, thrownIn, resolved, x0, bounds, fL,
                   goldenFrame>>

\* xL = xU - 2*dx, snapped to x0; return [xL, xU]
BracketResult ==
    LET xLA == FSub(bxU, Twice(dx))
    IN  <<IF FEq(x0, FAdd(xLA, dx)) THEN x0 ELSE xLA, bxU>>

\* bracketMinimum's loop ends; _minimizeSearch takes the interval
BracketReturn ==
    /\ pc = "bracketLoop"
    /\ ~BracketContinues
    /\ bounds' = BracketResult
    /\ pc' = "golden"
    /\ UNCHANGED <<args, status, result, thrownIn, beat, resolved, x0, bracketFrame,
                   goldenFrame>>

\* goldenSectionMinimize before its loop: the two probes and the two ends
GoldenEnter ==
    /\ pc = "golden"
    /\ LET lo == bounds[1]
           hi == bounds[2]
       IN  /\ xL' = lo
           /\ xU' = hi
           /\ x1' = FSub(hi, MulPhi(FSub(hi, lo)))
           /\ x2' = FAdd(lo, MulPhi(FSub(hi, lo)))
           /\ f10' = Eval(f, lo)
           /\ f20' = Eval(f, hi)
           /\ xL0' = lo
           /\ xU0' = hi
    /\ f1' = Eval(f, x1')
    /\ f2' = Eval(f, x2')
    /\ iteration' = 0
    /\ pc' = "goldenLoop"
    /\ UNCHANGED <<args, status, result, thrownIn, beat, resolved, x0, bounds, bracketFrame>>

\* while (++iteration < maxIterations && Math.abs(xU - xL) > tol)
GoldenContinues ==
    /\ iteration + 1 < maxIterations
    /\ FGt(FAbs(FSub(xU, xL)), tolerance)

\* one iteration of goldenSectionMinimize's loop
GoldenStep ==
    /\ pc = "goldenLoop"
    /\ GoldenContinues
    /\ iteration' = iteration + 1
    /\ IF FGt(f2, f1)
       THEN /\ xU' = x2
            /\ x2' = x1
            /\ f2' = f1
            /\ x1' = FSub(xU', MulPhi(FSub(xU', xL)))
            /\ f1' = Eval(f, x1')
            /\ xL' = xL
       ELSE /\ xL' = x1
            /\ x1' = x2
            /\ f1' = f2
            /\ x2' = FAdd(xL', MulPhi(FSub(xU, xL')))
            /\ f2' = Eval(f, x2')
            /\ xU' = xU
    /\ beat' = ~beat
    /\ UNCHANGED <<args, status, pc, result, thrownIn, resolved, x0, bounds,
                   bracketFrame, f10, f20, xL0, xU0>>

\* xF = 0.5 * (xU + xL); fF = 0.5 * (f1 + f2)
MidPoint == Half(FAdd(xU, xL))
MidValue == Half(FAdd(f1, f2))

\* isNaN(f2) || isNaN(f1) || iteration === maxIterations
NotConverged(it) == IsNaN(f2) \/ IsNaN(f1) \/ it = maxIterations

\* the writes to the status record after the loop
FinalStatus(st, it) ==
    IF st.given
    THEN [st EXCEPT !.iterations = it, !.argmin = MidPoint,
                    !.minimum = MidValue, !.converged = ~NotConverged(it)]
    ELSE st

\* The return with the comparison of the left end turned around.
GoldenResultFlipped(it) ==
    IF NotConverged(it) THEN NaN
    ELSE IF FGt(f10, MidValue) THEN xL0
    ELSE IF FLt(f20, MidValue) THEN xU0
    ELSE MidPoint

\* the value goldenSectionMinimize returns
GoldenResult(it) ==
    IF NotConverged(it) THEN NaN
    ELSE IF FLt(f10, MidValue) THEN xL0
    ELSE IF FLt(f20, MidValue) THEN xU0
    ELSE MidPoint

\* the loop test fails (it still increments iteration); status is written
\* and the result returned
GoldenReturn ==
    /\ pc = "goldenLoop"
    /\ ~GoldenContinues
    /\ iteration' = iteration + 1
    /\ status' = FinalStatus(status, iteration')
    /\ result' = GoldenResult(iteration')
    /\ pc' = "done"
    /\ UNCHANGED <<args, thrownIn, beat, resolved, x0, bounds, bracketFrame,
                   xL, xU, x1, x2, f1, f2, f10, f20, xL0, xU0>>

\* The next step evaluates f.
EvaluatesNext ==
    \/ pc = "bracket"
    \/ pc = "bracketLoop" /\ BracketContinues /\ BracketExpands
    \/ pc = "golden"
    \/ pc = "goldenLoop" /\ GoldenContinues

\* f raises at the next evaluation: the call is abandoned, its frames are
\* gone, and the caller keeps only the status record.
FThrows ==
    /\ EvaluatesNext
    /\ pc' = "thrown"
    /\ thrownIn' = pc
    /\ beat' = FALSE
    /\ tolerance' = 0 /\ dx' = 0 /\ xMin' = 0 /\ xMax' = 0 /\ maxIterations' = 0
    /\ x0' = 0
    /\ bounds' = <<0, 0>>
    /\ bxU' = 0 /\ fU' = 0 /\ fL' = 0 /\ fMin' = 0 /\ bounded' = FALSE
    /\ xL' = 0 /\ xU' = 0 /\ x1' = 0 /\ x2' = 0 /\ f1' = 0 /\ f2' = 0
    /\ f10' = 0 /\ f20' = 0 /\ xL0' = 0 /\ xU0' = 0 /\ iteration' = 0
    /\ UNCHANGED <<args, status, result>>

Next ==
    \/ Call
    \/ BracketEnter
    \/ BracketStep
    \/ BracketReturn
    \/ GoldenEnter
    \/ GoldenStep
    \/ GoldenReturn
    \/ FThrows

Spec == Init /\ [][Next]_vars

\* The steps of the program itself, every evaluation of f returning.
Step ==
    \/ Call
    \/ BracketEnter
    \/ BracketStep
    \/ BracketReturn
    \/ GoldenEnter
    \/ GoldenStep
    \/ GoldenReturn

\* The calls of the fair specification: a convex, an ever decreasing and a
\* decreasing-then-flat objective, in the bounded and in the bracketing mode.
FairObjectives ==
    {Objective("convex", Centre, 0, 0), Objective("linear", 0, -2, 0),
     Objective("hinge", 2, 2, 0)}
FairOptionSets ==
    [tolerance : {1}, initialIncrement : {Undef, 2},
     lowerBound : {Undef, 0}, upperBound : {Undef, 8},
     maxIterations : {Undef}]
FairInit == Before(FairObjectives, FairOptionSets, {StatusRecord(TRUE, 7, 3, 0, TRUE)})

\* The call runs on the caller's thread without interruption: a step of
\* the program that can be taken is taken.
FairSpec == FairInit /\ [][Next]_vars /\ WF_vars(Step)

(***************************************************************************)
(* Vocabulary of the properties.                                           *)
(***************************************************************************)
Done == pc = "done"
Converged == ~IsNaN(result)
\* both bounds were given and finite: bracketing was skipped
BoundedMode == IsFinite(xMin) /\ IsFinite(xMax)
\* |xU - xL| of the interval the refinement loop ended with
FinalWidth == FAbs(FSub(xU, xL))
\* the refinement loop ended with the interval no wider than the tolerance
WithinTolerance == FLe(FinalWidth, tolerance)
\* the refinement loop ended because ++iteration reached the cap
StoppedOnCap == iteration >= maxIterations
\* the status record exactly as the reset leaves it
InitialStatus == StatusRecord(TRUE, 0, NaN, PosInf, FALSE)

\* g takes finite values on lo..hi and is strictly convex there
StrictlyConvexOn(g, lo, hi) ==
    /\ \A x \in lo..hi : IsFinite(Eval(g, x))
    /\ \A x \in (lo + 1)..(hi - 1) :
          Eval(g, x - 1) + Eval(g, x + 1) > 2 * Eval(g, x)
StrictlyIncreasingOn(g, lo, hi) ==
    \A x \in lo..(hi - 1) : FLt(Eval(g, x), Eval(g, x + 1))
StrictlyDecreasingOn(g, lo, hi) ==
    \A x \in lo..(hi - 1) : FGt(Eval(g, x), Eval(g, x + 1))

\* C1: for a strictly convex objective whose minimizer lies strictly inside
\* finite bounds, a run that shrank the interval below the tolerance within
\* its iteration budget returns a value within tolerance of the minimizer.
C1_ConvexWithinTolerance ==
    (/\ Done
     /\ BoundedMode
     /\ f.kind = "convex"
     /\ xMin < f.c /\ f.c < xMax
     /\ StrictlyConvexOn(f, xMin, xMax)
     /\ WithinTolerance
     /\ ~StoppedOnCap)
    => (Converged /\ Abs(result - f.c) <= tolerance)

\* C2: with a status record supplied, the result is NaN exactly when
\* status.converged is false.
C2_NaNIffNotConverged ==
    (Done /\ status.given) => (IsNaN(result) <=> ~status.converged)

\* C3: non-convergence is reported exactly when a final probe value is NaN
\* or the loop stopped on the iteration cap with the interval still wider
\* than the tolerance.
C3_NonConvergenceExactly ==
    Done => (IsNaN(result)
               <=> (IsNaN(f1) \/ IsNaN(f2) \/ (StoppedOnCap /\ ~WithinTolerance)))

\* C4: with finite bounds lowerBound < upperBound, a run that converges
\* returns lowerBound (or a value within tolerance of it) when f is strictly
\* increasing on the bounds, and upperBound (or a value within tolerance of
\* it) when f is strictly decreasing.
C4_MonotoneGoesToBoundary ==
    (Done /\ BoundedMode /\ xMin < xMax /\ Converged)
    => /\ StrictlyIncreasingOn(f, xMin, xMax)
            => (result = xMin \/ Abs(result - xMin) <= tolerance)
       /\ StrictlyDecreasingOn(f, xMin, xMax)
            => (result = xMax \/ Abs(result - xMax) <= tolerance)

\* a converged run on a strictly decreasing objective, after refinement
\* steps, with the upper bound returned
C4_Witness ==
    /\ Done /\ BoundedMode /\ Converged
    /\ StrictlyDecreasingOn(f, xMin, xMax)
    /\ iteration > 2
    /\ result = xMax

\* C5: a non-NaN result lies within [lowerBound, upperBound] (a missing
\* bound being infinite), with both bounds finite and with only one of them
\* given and a positive initialIncrement.
C5_ResultWithinBounds ==
    (Done /\ Converged /\ (BoundedMode \/ (IsFinite(dx) /\ dx > 0)))
    => (xMin <= result /\ result <= xMax)

\* C6: the status record is reset before the first evaluation of f and not
\* written again before the last one: while evaluations remain, and after
\* f raised at any of them, the record is exactly the reset state whatever
\* it held before the call.
C6_StatusResetBeforeWork ==
    (status.given /\ pc \in {"bracket", "bracketLoop", "golden", "goldenLoop", "thrown"})
    => status = InitialStatus

\* f raised inside the refinement loop
C6_Witness ==
    pc = "thrown" /\ thrownIn = "goldenLoop" /\ status = InitialStatus

\* C7: after a converged call, status.argmin is the value returned.
C7_ArgminIsResult ==
    (Done /\ status.given /\ Converged) => status.argmin = result

\* C8: for finite dx > 0 and an f that returns no NaN, the interval that
\* bracketMinimum returns does not start below x0 and is either
\* [x0, x0 + dx] with f(x0) <= f(x0 + dx), or has xU - dx strictly inside
\* with f(xU - dx) <= f(xL) and f(xU - dx) < f(xU).
C8_BracketContainsMinimum ==
    (/\ pc = "golden"
     /\ ~BoundedMode
     /\ IsFinite(dx) /\ dx > 0
     /\ f.kind # "root")
    => LET lo == bounds[1]
           hi == bounds[2]
           xm == FSub(hi, dx)
       IN  /\ lo >= x0
           /\ \/ /\ lo = x0
                 /\ hi = FAdd(x0, dx)
                 /\ FLe(Eval(f, lo), Eval(f, hi))
              \/ /\ lo < xm /\ xm < hi
                 /\ FLe(Eval(f, xm), Eval(f, lo))
                 /\ FLt(Eval(f, xm), Eval(f, hi))

\* C9: at every handoff to goldenSectionMinimize the interval is ordered
\* and both its ends are finite.
C9_HandoffOrderedFinite ==
    pc = "golden"
    => (IsFinite(bounds[1]) /\ IsFinite(bounds[2]) /\ bounds[1] <= bounds[2])

\* C10: every call eventually returns, provided each evaluation of f
\* returns.
C10_EventuallyReturns == <>(pc = "done" \/ pc = "thrown")

====
